---- MODULE Spec2Model ----
(***************************************************************************)
(* Light client backend (core/client/src/light/backend.rs).                *)
(*                                                                         *)
(* Backend owns a shared Blockchain (header store + weak fetcher handle),  *)
(* stages header imports in an ImportOperation and hands out OnDemandState *)
(* views.  A view reads storage keys remotely through the fetcher and      *)
(* caches the header of its block behind a read/write lock.                *)
(***************************************************************************)
EXTENDS Integers, Sequences, FiniteSets, TLC

\* ------------------------------------------------------------------ bounds
MaxNumber == 2      \* block numbers 1..MaxNumber
MaxViews == 1       \* state views created by state_at
MaxCalls == 2       \* storage() calls started on one view

Threads == {"t1", "t2"}
Keys == {"k1", "k2"}
AuthorityLists == {<<"A1", "A2">>}
Bodies == {[some |-> FALSE], [some |-> TRUE, val |-> <<"xt1">>]}
Justifications == {[some |-> FALSE], [some |-> TRUE, val |-> "J1"]}

\* ------------------------------------------------- Option / Result values
None == [some |-> FALSE]
Some(x) == [some |-> TRUE, val |-> x]
Ok(x) == [ok |-> TRUE, val |-> x]
Err(e) == [ok |-> FALSE, err |-> e]
Unit == "()"

\* ----------------------------------------------------- headers and hashes
Headers == [number : 1..MaxNumber]
\* Block::Hash of a header: an opaque digest, injective on headers.
HashOf(header) == <<"hash", header.number>>
Hashes == {HashOf(hd) : hd \in Headers}

BlockIdHash(h) == [kind |-> "Hash", hash |-> h]
BlockIdNumber(n) == [kind |-> "Number", number |-> n]
BlockIds == {BlockIdHash(h) : h \in Hashes} \cup {BlockIdNumber(n) : n \in 1..MaxNumber}

VARIABLES
    store,        \* BlockchainStorage: the set of headers imported
    bcAlive,      \* a strong reference to the Blockchain exists (the Backend's Arc)
    fetcherExt,   \* a strong reference to the fetcher exists outside storage() calls
    op,           \* the ImportOperation being staged, or NoOp
    fatal,        \* the backend's caller has panicked
    last,         \* the last completed call (backend, view method or storage) and its result
    views,        \* the OnDemandState values, in creation order
    pc,           \* per thread: position inside OnDemandState::storage
    frame         \* per thread: the locals of the storage() call in progress

vars == <<store, bcAlive, fetcherExt, op, fatal, last, views, pc, frame>>

NoOp == [live |-> FALSE]
NoCall == [op |-> "none"]
NoFrame == [view |-> 0]

ViewIds == 1..Len(views)

\* ------------------------------------------ collaborators (Blockchain, Fetcher)
\* HeaderBackend::hash(number): the hash indexed under the number, or a storage error.
HashResults(n) ==
    {Err("Backend"),
     Ok(IF \E hd \in store : hd.number = n
        THEN Some(HashOf(CHOOSE hd \in store : hd.number = n))
        ELSE None)}

\* HeaderBackend::expect_header(BlockId::Hash(h)).
expect_header(h) ==
    IF \E hd \in store : HashOf(hd) = h
    THEN Ok(CHOOSE hd \in store : HashOf(hd) = h)
    ELSE Err("UnknownBlock")

\* Storage::import_header: on success the header is stored and indexed.
import_header(st, is_new_best, header, authorities, outcome) ==
    IF outcome.ok THEN st \cup {header} ELSE st

ImportOutcomes == {Ok(Unit), Err("Backend")}

\* The value a full node holds under a key of a block's state.
RemoteState(block, key) == IF key = "k1" THEN Some(<<"value", block, key>>) ELSE None

\* Fetcher::remote_read: the remote value of the requested key, or a failure.
remote_read(request, outcome) ==
    IF outcome = "ok" THEN Ok(RemoteState(request.block, request.key))
    ELSE Err("RemoteFetchFailed")

FetchOutcomes == {"ok", "fail"}

\* Mutant of FetcherAlive: every live view holds an Arc<F> of its own.
FetcherAlive_HeldByViews ==
    \/ fetcherExt
    \/ \E t \in Threads : pc[t] \in {"waiting", "replied"}
    \/ \E v \in 1..Len(views) : views[v].live

\* The fetcher lives while some Arc<F> does: the network layer's, or the one a
\* storage() call holds from upgrade() until it returns.
FetcherAlive == fetcherExt \/ \E t \in Threads : pc[t] \in {"waiting", "replied"}

\* --------------------------------------------------------------- Init
Init ==
    /\ store = {}
    /\ bcAlive = TRUE
    /\ fetcherExt = TRUE
    /\ op = NoOp
    /\ fatal = FALSE
    /\ last = NoCall
    /\ views = << >>
    /\ pc = [t \in Threads |-> "idle"]
    /\ frame = [t \in Threads |-> NoFrame]

\* ------------------------------------------------------------ Backend
BackendUsable == bcAlive /\ ~fatal

\* Backend::begin_operation
NewImportOperation ==
    [live |-> TRUE, is_new_best |-> FALSE, header |-> None, authorities |-> None,
     g_set |-> None, g_auth |-> None, g_noop |-> FALSE,
     g_reset |-> FALSE]

BeginOperation(block) ==
    /\ BackendUsable
    /\ op = NoOp
    /\ op' = NewImportOperation
    /\ UNCHANGED <<store, bcAlive, fetcherExt, fatal, last, views, pc, frame>>

\* Mutant of set_block_data: the staged authorities are reset with the block.
set_block_data_ClearsAuthorities(o, header, body, justification, is_new_best) ==
    [o EXCEPT !.is_new_best = is_new_best, !.header = Some(header),
              !.authorities = None]

\* ImportOperation::set_block_data: _body and _justification are not used.
set_block_data(o, header, body, justification, is_new_best) ==
    [o EXCEPT !.is_new_best = is_new_best, !.header = Some(header)]

\* g_reset: the call replaces the values of an earlier set_block_data on an
\* operation that holds authorities.
SetBlockData(header, body, justification, is_new_best) ==
    /\ BackendUsable
    /\ op.live
    /\ op' = [set_block_data(op, header, body, justification, is_new_best) EXCEPT
                !.g_set = Some([header |-> header, is_new_best |-> is_new_best]),
                !.g_reset = op.g_set.some /\ op.g_auth.some]
    /\ UNCHANGED <<store, bcAlive, fetcherExt, fatal, last, views, pc, frame>>

\* ImportOperation::update_authorities
update_authorities(o, authorities) == [o EXCEPT !.authorities = Some(authorities)]

UpdateAuthorities(authorities) ==
    /\ BackendUsable
    /\ op.live
    /\ op' = [update_authorities(op, authorities) EXCEPT !.g_auth = Some(authorities)]
    /\ UNCHANGED <<store, bcAlive, fetcherExt, fatal, last, views, pc, frame>>

\* ImportOperation::update_storage / update_changes_trie / reset_storage
\* Mutant of reset_storage: resetting the storage also forgets the authorities.
reset_storage_ClearsAuthorities(o) == [o EXCEPT !.authorities = None]

update_storage(o) == o
update_changes_trie(o) == o
reset_storage(o) == o

UpdateStorage ==
    /\ BackendUsable
    /\ op.live
    /\ op' = [update_storage(op) EXCEPT !.g_noop = TRUE]
    /\ UNCHANGED <<store, bcAlive, fetcherExt, fatal, last, views, pc, frame>>

UpdateChangesTrie ==
    /\ BackendUsable
    /\ op.live
    /\ op' = [update_changes_trie(op) EXCEPT !.g_noop = TRUE]
    /\ UNCHANGED <<store, bcAlive, fetcherExt, fatal, last, views, pc, frame>>

ResetStorage ==
    /\ BackendUsable
    /\ op.live
    /\ op' = [reset_storage(op) EXCEPT !.g_noop = TRUE]
    /\ UNCHANGED <<store, bcAlive, fetcherExt, fatal, last, views, pc, frame>>

\* Mutant of CommitCalls: a missing header is replaced by a default header.
CommitCalls_DefaultHeader(o, outcome) ==
    <<[is_new_best |-> o.is_new_best,
       header |-> IF o.header.some THEN o.header.val ELSE [number |-> 0],
       authorities |-> o.authorities, result |-> outcome]>>

\* Backend::commit_operation: the import_header invocations it makes.
CommitCalls(o, outcome) ==
    IF o.header.some
    THEN <<[is_new_best |-> o.is_new_best, header |-> o.header.val,
            authorities |-> o.authorities, result |-> outcome]>>
    ELSE << >>

CommitResult(o, calls) ==
    IF o.header.some THEN calls[Len(calls)].result ELSE [ok |-> FALSE, err |-> "Panic"]

\* The store after the import_header invocations of a commit.
RECURSIVE ApplyImports(_, _)
ApplyImports(st, calls) ==
    IF calls = << >> THEN st
    ELSE LET c == Head(calls) IN
         ApplyImports(import_header(st, c.is_new_best, c.header, c.authorities, c.result),
                      Tail(calls))

CommitOperation(outcome) ==
    /\ BackendUsable
    /\ op.live
    /\ LET calls == CommitCalls(op, outcome) IN
        /\ store' = ApplyImports(store, calls)
        /\ last' = [op |-> "commit_operation", calls |-> calls,
                    res |-> CommitResult(op, calls),
                    g_set |-> op.g_set, g_auth |-> op.g_auth, g_noop |-> op.g_noop,
                    g_reset |-> op.g_reset]
    /\ fatal' = ~op.header.some
    /\ op' = NoOp
    /\ UNCHANGED <<bcAlive, fetcherExt, views, pc, frame>>

\* Backend::state_at
unwrap_or_default(r) == IF r.ok THEN r.val ELSE None

\* Mutant of BlockHash: an unindexed number falls back to a default hash.
BlockHash_DefaultHash(block, hr) ==
    IF block.kind = "Hash" THEN Some(block.hash)
    ELSE IF hr.ok /\ hr.val.some THEN hr.val ELSE Some(<<"hash", 0>>)

BlockHash(block, hr) ==
    IF block.kind = "Hash" THEN Some(block.hash) ELSE unwrap_or_default(hr)

\* Mutant of NewOnDemandState: the header is resolved when the view is made.
NewOnDemandState_Eager(h) ==
    [block |-> h,
     cached_header |-> IF expect_header(h).ok THEN Some(expect_header(h).val) ELSE None,
     live |-> TRUE, calls |-> 0, lookups |-> 1, writes |-> 0,
     known |-> expect_header(h).ok]

NewOnDemandState(h) ==
    [block |-> h, cached_header |-> None, live |-> TRUE,
     calls |-> 0, lookups |-> 0, writes |-> 0,
     known |-> expect_header(h).ok]

StateAt(block) ==
    /\ BackendUsable
    /\ \E hr \in (IF block.kind = "Number" THEN HashResults(block.number) ELSE {Ok(None)}) :
        LET block_hash == BlockHash(block, hr) IN
        IF block_hash.some
        THEN /\ Len(views) < MaxViews
             /\ views' = Append(views, NewOnDemandState(block_hash.val))
             /\ last' = [op |-> "state_at", block |-> block, res |-> Ok(Len(views) + 1)]
        ELSE /\ views' = views
             /\ last' = [op |-> "state_at", block |-> block, res |-> Err("UnknownBlock")]
    /\ UNCHANGED <<store, bcAlive, fetcherExt, op, fatal, pc, frame>>

\* Mutant of revert: the unsupported operation is reported as an error value.
revert_Unsupported(n) == Err("NotAvailableOnLightClient")

\* Backend::revert: unimplemented!()
revert(n) == Err("Panic")

\* The caller unwinds, dropping the operation it was staging.
Revert(n) ==
    /\ BackendUsable
    /\ LET res == revert(n) IN
        /\ last' = [op |-> "revert", n |-> n, res |-> res]
        /\ fatal' = (res = Err("Panic"))
        /\ op' = IF res = Err("Panic") THEN NoOp ELSE op
    /\ UNCHANGED <<store, bcAlive, fetcherExt, views, pc, frame>>

\* ------------------------------------------------- reference lifetimes
\* The client is torn down: the Backend and every other holder release their
\* Arc<Blockchain>, and an operation still being staged is dropped with them.
DropBlockchain ==
    /\ bcAlive
    /\ bcAlive' = FALSE
    /\ op' = NoOp
    /\ UNCHANGED <<store, fetcherExt, fatal, last, views, pc, frame>>

\* The network layer releases its Arc<F>.
DropFetcher ==
    /\ fetcherExt
    /\ fetcherExt' = FALSE
    /\ UNCHANGED <<store, bcAlive, op, fatal, last, views, pc, frame>>

\* ------------------------------------------------------ OnDemandState
\* Threads inside storage() on view v at one of the given positions.
At(v, positions) == {t \in Threads : frame[t].view = v /\ pc[t] \in positions}

\* storage() returns res to its caller.  The record keeps, beside the result,
\* what the call did (header used, lookup performed, request issued, reply
\* received, number of remote_read requests made) and what held when it was
\* entered: fdead / bdead (the fetcher / the blockchain was already destroyed),
\* first (no earlier call on the view), cached0 (the cache was populated).
Return(t, res) ==
    /\ pc' = [pc EXCEPT ![t] = "idle"]
    /\ last' = [op |-> "storage", view |-> frame[t].view,
                key |-> frame[t].key, res |-> res,
                header |-> frame[t].header, looked |-> frame[t].looked,
                request |-> frame[t].request, reply |-> frame[t].reply,
                nreq |-> frame[t].nreq, cached0 |-> frame[t].cached0,
                fdead |-> frame[t].fdead, bdead |-> frame[t].bdead,
                first |-> frame[t].first]
    /\ frame' = [frame EXCEPT ![t] = NoFrame]

\* storage(key) is entered and takes the read lock of cached_header
\* (self.cached_header.read()); a reader waits while a writer holds the lock.
StorageCall(t, v, key) ==
    /\ pc[t] = "idle"
    /\ v \in ViewIds
    /\ views[v].live
    /\ views[v].calls < MaxCalls
    /\ At(v, {"wlocked"}) = {}
    /\ pc' = [pc EXCEPT ![t] = "rlocked"]
    /\ frame' = [frame EXCEPT ![t] =
                  [view |-> v, key |-> key, header |-> None, request |-> None,
                   reply |-> None, looked |-> FALSE, nreq |-> 0,
                   cached0 |-> views[v].cached_header.some,
                   fdead |-> ~FetcherAlive, bdead |-> ~bcAlive,
                   first |-> views[v].calls = 0]]
    /\ views' = [views EXCEPT ![v].calls = @ + 1]
    /\ UNCHANGED <<store, bcAlive, fetcherExt, op, fatal, last>>

\* Mutant of ReadCache: reading the cell takes the header out of it.
ReadCache_Take(t) ==
    /\ pc[t] = "rlocked"
    /\ LET header == views[frame[t].view].cached_header IN
        /\ frame' = [frame EXCEPT ![t].header = header]
        /\ pc' = [pc EXCEPT ![t] = IF header.some THEN "fetch" ELSE "resolve"]
    /\ views' = [views EXCEPT ![frame[t].view].cached_header = None]
    /\ UNCHANGED <<store, bcAlive, fetcherExt, op, fatal, last>>

\* Mutant of ReadCache: the cached header is looked up again on every call.
ReadCache_Revalidate(t) ==
    /\ pc[t] = "rlocked"
    /\ frame' = [frame EXCEPT ![t].header = None]
    /\ pc' = [pc EXCEPT ![t] = "resolve"]
    /\ UNCHANGED <<store, bcAlive, fetcherExt, op, fatal, last, views>>

\* Mutant of ReadCache: the fetcher is checked before the header is resolved.
ReadCache_FetcherFirst(t) ==
    /\ pc[t] = "rlocked"
    /\ IF FetcherAlive
       THEN LET header == views[frame[t].view].cached_header IN
            /\ frame' = [frame EXCEPT ![t].header = header]
            /\ pc' = [pc EXCEPT ![t] = IF header.some THEN "fetch" ELSE "resolve"]
            /\ last' = last
       ELSE Return(t, Err("NotAvailableOnLightClient"))
    /\ UNCHANGED <<store, bcAlive, fetcherExt, op, fatal, views>>

\* let mut header = self.cached_header.read().clone();  the guard is dropped.
ReadCache(t) ==
    /\ pc[t] = "rlocked"
    /\ LET header == views[frame[t].view].cached_header IN
        /\ frame' = [frame EXCEPT ![t].header = header]
        /\ pc' = [pc EXCEPT ![t] = IF header.some THEN "fetch" ELSE "resolve"]
    /\ UNCHANGED <<store, bcAlive, fetcherExt, op, fatal, last, views>>

\* Mutant of ResolveHeader: the header is looked up without upgrading the
\* weak blockchain reference.
ResolveHeader_NoUpgrade(view) == expect_header(view.block)

\* Mutant of ResolveHeader: a header that was missing when the view was made
\* is taken to be missing for good.
ResolveHeader_Snapshot(view) ==
    IF bcAlive /\ view.known THEN expect_header(view.block) ELSE Err("UnknownBlock")

\* self.blockchain.upgrade().ok_or_else(UnknownBlock)
\*     .and_then(|blockchain| blockchain.expect_header(BlockId::Hash(self.block)))?
ResolveHeader(view) ==
    IF bcAlive THEN expect_header(view.block) ELSE Err("UnknownBlock")

Resolve(t) ==
    /\ pc[t] = "resolve"
    /\ LET v == frame[t].view
           r == ResolveHeader(views[v]) IN
        /\ views' = [views EXCEPT ![v].lookups = @ + (IF bcAlive THEN 1 ELSE 0)]
        /\ IF r.ok
           THEN /\ frame' = [frame EXCEPT ![t].header = Some(r.val), ![t].looked = TRUE]
                /\ pc' = [pc EXCEPT ![t] = "wlock"]
                /\ last' = last
           ELSE Return(t, r)
    /\ UNCHANGED <<store, bcAlive, fetcherExt, op, fatal>>

\* Mutant of AcquireWrite: the read guard of line 196 is still held when the
\* write lock is requested, so the caller waits for itself.
AcquireWrite_ReadGuardHeld(t) ==
    /\ pc[t] = "wlock"
    /\ At(frame[t].view, {"rlocked", "wlock", "wlocked"}) = {}
    /\ pc' = [pc EXCEPT ![t] = "wlocked"]
    /\ UNCHANGED <<store, bcAlive, fetcherExt, op, fatal, last, views, frame>>

\* self.cached_header.write(): waits for every reader and writer to release.
AcquireWrite(t) ==
    /\ pc[t] = "wlock"
    /\ At(frame[t].view, {"rlocked", "wlocked"}) = {}
    /\ pc' = [pc EXCEPT ![t] = "wlocked"]
    /\ UNCHANGED <<store, bcAlive, fetcherExt, op, fatal, last, views, frame>>

\* Mutant of WriteCache: the resolved header is never stored in the cell.
WriteCache_NoStore(t) ==
    /\ pc[t] = "wlocked"
    /\ views' = [views EXCEPT ![frame[t].view].writes = @ + 1]
    /\ pc' = [pc EXCEPT ![t] = "fetch"]
    /\ UNCHANGED <<store, bcAlive, fetcherExt, op, fatal, last, frame>>

\* *self.cached_header.write() = Some(cached_header);  the guard is dropped.
WriteCache(t) ==
    /\ pc[t] = "wlocked"
    /\ views' = [views EXCEPT ![frame[t].view].cached_header = frame[t].header,
                              ![frame[t].view].writes = @ + 1]
    /\ pc' = [pc EXCEPT ![t] = "fetch"]
    /\ UNCHANGED <<store, bcAlive, fetcherExt, op, fatal, last, frame>>

\* Mutant of RemoteReadRequest: the request asks the fetcher not to retry.
RemoteReadRequest_NoRetries(view, header, key) ==
    [block |-> view.block, header |-> header.val, key |-> key, retry_count |-> Some(0)]

\* RemoteReadRequest { block, header: header.expect(..), key, retry_count: None }
RemoteReadRequest(view, header, key) ==
    [block |-> view.block, header |-> header.val, key |-> key, retry_count |-> None]

\* Mutant of Fetch: a dropped fetcher is reported as an absent value.
Fetch_AbsentWhenDropped(t) ==
    /\ pc[t] = "fetch"
    /\ IF FetcherAlive
       THEN /\ frame' = [frame EXCEPT ![t].request =
                           Some(RemoteReadRequest(views[frame[t].view], frame[t].header,
                                                  frame[t].key)),
                                        ![t].nreq = @ + 1]
            /\ pc' = [pc EXCEPT ![t] = "waiting"]
            /\ last' = last
       ELSE Return(t, Ok(None))
    /\ UNCHANGED <<store, bcAlive, fetcherExt, op, fatal, views>>

\* self.fetcher.upgrade().ok_or(NotAvailableOnLightClient)?.remote_read(request)
Fetch(t) ==
    /\ pc[t] = "fetch"
    /\ IF FetcherAlive
       THEN /\ frame' = [frame EXCEPT ![t].request =
                           Some(RemoteReadRequest(views[frame[t].view], frame[t].header,
                                                  frame[t].key)),
                                        ![t].nreq = @ + 1]
            /\ pc' = [pc EXCEPT ![t] = "waiting"]
            /\ last' = last
       ELSE Return(t, Err("NotAvailableOnLightClient"))
    /\ UNCHANGED <<store, bcAlive, fetcherExt, op, fatal, views>>

\* The fetcher completes the request of thread t.
FetcherComplete(t, outcome) ==
    /\ pc[t] = "waiting"
    /\ frame' = [frame EXCEPT ![t].reply = Some(remote_read(frame[t].request.val, outcome))]
    /\ pc' = [pc EXCEPT ![t] = "replied"]
    /\ UNCHANGED <<store, bcAlive, fetcherExt, op, fatal, last, views>>

\* Mutant of WaitResult: an absent value is turned into an error.
WaitResult_AbsentIsError(reply) ==
    IF reply.val.ok /\ ~reply.val.val.some
    THEN Err("NotAvailableOnLightClient")
    ELSE reply.val

\* .into_future().wait(): the completed read's result is the result of storage().
WaitResult(reply) == reply.val

\* Mutant of StorageReturn: a failed remote read is retried once.
StorageReturn_RetryOnce(t) ==
    /\ pc[t] = "replied"
    /\ IF ~frame[t].reply.val.ok /\ frame[t].nreq < 2
       THEN /\ pc' = [pc EXCEPT ![t] = "fetch"]
            /\ frame' = [frame EXCEPT ![t].reply = None]
            /\ last' = last
       ELSE Return(t, WaitResult(frame[t].reply))
    /\ UNCHANGED <<store, bcAlive, fetcherExt, op, fatal, views>>

StorageReturn(t) ==
    /\ pc[t] = "replied"
    /\ Return(t, WaitResult(frame[t].reply))
    /\ UNCHANGED <<store, bcAlive, fetcherExt, op, fatal, views>>

\* Mutant of for_keys_with_prefix: the action is invoked on the prefix itself.
for_keys_with_prefix_Invokes(view, prefix) == 1

\* for_keys_with_prefix: the number of times the action is invoked.
for_keys_with_prefix(view, prefix) == 0
\* storage_root: (H::Out::default(), ())
storage_root(view, delta) == <<"default", Unit>>
\* pairs
pairs(view) == << >>
\* try_into_trie_backend
try_into_trie_backend(view) == None

ViewMethod(v, name, res) ==
    /\ v \in ViewIds
    /\ views[v].live
    /\ last' = [op |-> name, view |-> v, res |-> res]
    /\ UNCHANGED <<store, bcAlive, fetcherExt, op, fatal, pc, frame>>

ForKeysWithPrefix(v, prefix) ==
    /\ ViewMethod(v, "for_keys_with_prefix", for_keys_with_prefix(views[v], prefix))
    /\ views' = views

StorageRoot(v, delta) ==
    /\ ViewMethod(v, "storage_root", storage_root(views[v], delta))
    /\ views' = views

Pairs(v) ==
    /\ ViewMethod(v, "pairs", pairs(views[v]))
    /\ views' = views

\* try_into_trie_backend(self) takes the view by value: no call borrows it, and
\* it is dropped when the method returns.
TryIntoTrieBackend(v) ==
    /\ ViewMethod(v, "try_into_trie_backend", try_into_trie_backend(views[v]))
    /\ At(v, {"rlocked", "resolve", "wlock", "wlocked", "fetch", "waiting", "replied"}) = {}
    /\ views' = [views EXCEPT ![v].live = FALSE]

\* The storage() steps of the threads in T.
NextStorage(T) ==
    \/ \E t \in T, v \in ViewIds, k \in Keys : StorageCall(t, v, k)
    \/ \E t \in T : ReadCache(t)
    \/ \E t \in T : Resolve(t)
    \/ \E t \in T : AcquireWrite(t)
    \/ \E t \in T : WriteCache(t)
    \/ \E t \in T : Fetch(t)
    \/ \E t \in T, o \in FetchOutcomes : FetcherComplete(t, o)
    \/ \E t \in T : StorageReturn(t)

\* The other StateBackend methods of a view.
NextViewMethods ==
    \/ \E v \in ViewIds, p \in Keys : ForKeysWithPrefix(v, p)
    \/ \E v \in ViewIds, d \in Keys : StorageRoot(v, d)
    \/ \E v \in ViewIds : Pairs(v)
    \/ \E v \in ViewIds : TryIntoTrieBackend(v)

\* An import pipeline that only sets block data and commits, state_at and the drops.
NextBackend ==
    \/ \E b \in BlockIds : BeginOperation(b)
    \/ \E hd \in Headers : SetBlockData(hd, None, None, TRUE)
    \/ \E o \in ImportOutcomes : CommitOperation(o)
    \/ \E b \in BlockIds : StateAt(b)
    \/ DropBlockchain
    \/ DropFetcher

\* The import pipeline in full: every ImportOperation method, state_at and the drops.
NextImport ==
    \/ \E b \in BlockIds : BeginOperation(b)
    \/ \E hd \in Headers, b \in Bodies, j \in Justifications, nb \in BOOLEAN :
          SetBlockData(hd, b, j, nb)
    \/ \E a \in AuthorityLists : UpdateAuthorities(a)
    \/ UpdateStorage
    \/ UpdateChangesTrie
    \/ ResetStorage
    \/ \E o \in ImportOutcomes : CommitOperation(o)
    \/ \E b \in BlockIds : StateAt(b)
    \/ \E n \in 0..MaxNumber : Revert(n)
    \/ DropBlockchain
    \/ DropFetcher

SpecImport == Init /\ [][NextImport]_vars

\* The query pipeline with a single caller: storage() calls never overlap.
NextSeq ==
    \/ NextBackend
    \/ \E n \in 0..MaxNumber : Revert(n)
    \/ NextStorage({"t1"})
    \/ NextViewMethods

SpecSeq == Init /\ [][NextSeq]_vars

\* The query pipeline with concurrent callers of storage().
Next == NextBackend \/ NextStorage(Threads)

Spec == Init /\ [][Next]_vars

\* The steps of storage() that the calling thread takes by itself.
StorageStep(t) ==
    \/ ReadCache(t)
    \/ Resolve(t)
    \/ AcquireWrite(t)
    \/ WriteCache(t)
    \/ Fetch(t)
    \/ StorageReturn(t)

\* The fetcher completes the request thread t waits for, one way or the other.
Completes(t) == \E o \in FetchOutcomes : FetcherComplete(t, o)

\* Concurrent callers under a fair scheduler and a fetcher that completes
\* every request: a thread inside storage() that can take a step eventually
\* takes one, and a lock that stays free is eventually granted.
SpecLive ==
    /\ Spec
    /\ \A t \in Threads : WF_vars(StorageStep(t)) /\ WF_vars(Completes(t))
\* ================================================================ claims
UnknownBlock == Err("UnknownBlock")
NotAvailableOnLightClient == Err("NotAvailableOnLightClient")

\* The block identifier resolves in the blockchain store.
Present(block) ==
    IF block.kind = "Hash" THEN \E hd \in store : HashOf(hd) = block.hash
    ELSE \E hd \in store : hd.number = block.number

\* Threads inside storage() on view v.
InCall(v) == {t \in Threads : frame[t].view = v}

\* C1 (as stated): state_at of any block identifier that is not present in the
\* store, given by hash or by number, returns UnknownBlock and no view.
C1_StateAtUnknownBlock ==
    [][\A b \in BlockIds :
        (StateAt(b) /\ ~Present(b)) => (last'.res = UnknownBlock /\ views' = views)]_vars

\* C1 (amended): state_at of BlockId::Number(n) with no hash indexed under n
\* returns UnknownBlock and no view; state_at of BlockId::Hash(h) returns a view
\* bound to h whether or not a header is stored under h.
C1_StateAtUnknownNumber ==
    [][\A b \in BlockIds :
        StateAt(b) =>
            /\ (b.kind = "Number" /\ ~Present(b)) =>
                    (last'.res = UnknownBlock /\ views' = views)
            /\ b.kind = "Hash" =>
                    /\ last'.res = Ok(Len(views) + 1)
                    /\ Len(views') = Len(views) + 1
                    /\ views'[Len(views')].block = b.hash]_vars

C1_Witness ==
    /\ last.op = "state_at"
    /\ last.block.kind = "Number"
    /\ ~Present(last.block)
    /\ last.res = UnknownBlock

\* C2: on a view of a block whose header was stored when state_at returned it,
\* after N >= 1 sequential storage() calls (the blockchain alive at the first)
\* expect_header has been invoked exactly once and the cache holds the header.
C2_HeaderResolvedOnce ==
    \A v \in ViewIds :
        (/\ views[v].known
         /\ views[v].calls - Cardinality(InCall(v)) >= 1
         /\ (bcAlive \/ views[v].cached_header.some))
        => /\ views[v].lookups = 1
           /\ views[v].cached_header = Some(expect_header(views[v].block).val)

C2_Witness ==
    \E v \in ViewIds :
        /\ views[v].known
        /\ views[v].calls = MaxCalls
        /\ InCall(v) = {}
        /\ views[v].lookups = 1
        /\ last.op = "storage" /\ last.view = v /\ ~last.looked /\ last.res.ok

\* C3: under every interleaving of concurrent storage() calls on one view only
\* the first resolver looks the header up and writes the cache: the header is
\* looked up at most once and the cell is written at most once.
C3_SingleResolver ==
    \A v \in ViewIds :
        /\ views[v].writes <= 1
        /\ views[v].known => views[v].lookups <= 1

\* C4 (as stated): a storage() call entered after the fetcher was destroyed
\* returns NotAvailableOnLightClient and issues no remote read, whether or not
\* the header cache is populated.
C4_DroppedFetcherNotAvailable ==
    (last.op = "storage" /\ last.fdead) =>
        (last.res = NotAvailableOnLightClient /\ ~last.request.some)

\* C4 (amended): a storage() call entered after the fetcher was destroyed issues
\* no remote read; it returns NotAvailableOnLightClient when it has the header
\* (cached, or resolved by this call), and UnknownBlock when the cache is empty
\* and the resolution fails (blockchain dropped, or no header under the hash).
C4_DroppedFetcherAfterResolution ==
    (last.op = "storage" /\ last.fdead) =>
        /\ ~last.request.some
        /\ last.header.some => last.res = NotAvailableOnLightClient
        /\ ~last.header.some => last.res = UnknownBlock

C4_Witness ==
    /\ last.op = "storage"
    /\ last.fdead
    /\ last.header.some
    /\ ~last.looked
    /\ last.res = NotAvailableOnLightClient

\* C5: the first storage() call of a view, entered after the blockchain was
\* dropped, returns UnknownBlock, issues no remote read and leaves the header
\* cache empty.
C5_DroppedBlockchainUnknownBlock ==
    (last.op = "storage" /\ last.bdead /\ last.first) =>
        /\ last.res = UnknownBlock
        /\ ~last.request.some
        /\ ~views[last.view].cached_header.some

C5_Witness ==
    /\ last.op = "storage"
    /\ last.bdead
    /\ last.first
    /\ views[last.view].known
    /\ last.res = UnknownBlock
\* C6: an operation on which set_block_data(H1, b) and update_authorities(A)
\* were called commits with exactly one import_header invocation, with
\* (b, H1, Some(A)), and returns that invocation's result; update_storage,
\* update_changes_trie and reset_storage calls change neither.
C6_CommitImportsStagedData ==
    (last.op = "commit_operation" /\ last.g_set.some /\ last.g_auth.some) =>
        /\ Len(last.calls) = 1
        /\ last.calls[1].is_new_best = last.g_set.val.is_new_best
        /\ last.calls[1].header = last.g_set.val.header
        /\ last.calls[1].authorities = Some(last.g_auth.val)
        /\ last.res = last.calls[1].result

C6_Witness ==
    /\ last.op = "commit_operation"
    /\ last.g_set.some
    /\ last.g_auth.some
    /\ last.g_noop
    /\ Len(last.calls) = 1
    /\ last.calls[1].is_new_best
    /\ last.res.ok

\* C7: commit_operation on an operation on which set_block_data was never
\* called panics: it returns neither Ok nor an error, import_header is not
\* invoked and the store is unchanged.
C7_CommitWithoutHeaderPanics ==
    [][\A o \in ImportOutcomes :
        (CommitOperation(o) /\ ~op.g_set.some) =>
            /\ fatal'
            /\ last'.res = Err("Panic")
            /\ last'.calls = << >>
            /\ store' = store]_vars

C7_Witness ==
    /\ last.op = "commit_operation"
    /\ ~last.g_set.some
    /\ last.g_auth.some
    /\ last.g_noop
    /\ fatal

\* C8: a storage(key) call that has the header and finds the fetcher alive
\* returns the outcome of its remote read of that key: Some(V) for a value,
\* None for an absent key, the fetcher's error for a failed read.
C8_StorageReturnsRemoteOutcome ==
    (last.op = "storage" /\ last.request.some) =>
        /\ last.reply.some
        /\ last.res = last.reply.val
        /\ last.res.ok =>
              last.res.val = RemoteState(views[last.view].block, last.key)
        /\ ~last.res.ok => last.res = Err("RemoteFetchFailed")

C8_Witness ==
    /\ last.op = "storage"
    /\ last.request.some
    /\ last.key = "k2"
    /\ last.res = Ok(None)

\* A step of one of the four inert view methods.
ViewMethodStep(v) ==
    \/ \E p \in Keys : ForKeysWithPrefix(v, p)
    \/ \E d \in Keys : StorageRoot(v, d)
    \/ Pairs(v)
    \/ TryIntoTrieBackend(v)

\* C9: for_keys_with_prefix never invokes the action, pairs returns the empty
\* list, try_into_trie_backend returns absent and storage_root the default root
\* with an empty transaction; none looks a header up, issues a remote read or
\* changes the view's header cache.
C9_ViewMethodsInert ==
    [][\A v \in ViewIds :
        ViewMethodStep(v) =>
            /\ last'.res = CASE last'.op = "for_keys_with_prefix" -> 0
                             [] last'.op = "pairs" -> << >>
                             [] last'.op = "try_into_trie_backend" -> None
                             [] last'.op = "storage_root" -> <<"default", Unit>>
            /\ \A w \in ViewIds :
                  /\ views'[w].cached_header = views[w].cached_header
                  /\ views'[w].lookups = views[w].lookups
                  /\ views'[w].writes = views[w].writes
            /\ frame' = frame
            /\ store' = store]_vars

C9_Witness ==
    /\ last.op = "for_keys_with_prefix"
    /\ views[last.view].cached_header.some
    /\ views[last.view].calls = MaxCalls

\* C10: a populated header cache is never invalidated; it keeps the same
\* header, the header of the view's block hash, in every later state.
C10_CachedHeaderStable ==
    [][\A v \in ViewIds :
        views[v].cached_header.some =>
            /\ views'[v].cached_header = views[v].cached_header
            /\ HashOf(views[v].cached_header.val) = views[v].block]_vars

C10_Witness ==
    \E v \in ViewIds :
        /\ views[v].cached_header.some
        /\ views[v].writes = 2
        /\ ~bcAlive
        /\ ~FetcherAlive
        /\ last.op = "storage" /\ last.view = v
        /\ last.res = NotAvailableOnLightClient
\* C11: a storage() call makes at most one remote_read request: none when it
\* fails with UnknownBlock or NotAvailableOnLightClient, and exactly one, not
\* repeated, when it returns a remote outcome, a failed read included.
C11_NoRetry ==
    last.op = "storage" =>
        /\ last.nreq <= 1
        /\ last.res \in {UnknownBlock, NotAvailableOnLightClient} => last.nreq = 0
        /\ last.res = Err("RemoteFetchFailed") => last.nreq = 1
        /\ last.res.ok => last.nreq = 1

C11_Witness ==
    /\ last.op = "storage"
    /\ last.res = Err("RemoteFetchFailed")
    /\ last.nreq = 1
    /\ FetcherAlive
\* Threads holding the Arc<F> their storage() call upgraded.
FetcherHolders == {t \in Threads : pc[t] \in {"waiting", "replied"}}

C13_RevertIsFatal ==
    [][\A n \in 0..MaxNumber :
        Revert(n) => /\ fatal'
                     /\ last' = [op |-> "revert", n |-> n, res |-> Err("Panic")]
                     /\ store' = store
                     /\ views' = views
                     /\ bcAlive' = bcAlive /\ fetcherExt' = fetcherExt]_vars

C13_Witness ==
    /\ last.op = "revert"
    /\ fatal
    /\ store # {}
    /\ \E v \in ViewIds : views[v].cached_header.some
\* The hash a block identifier resolves to: the hash itself, or the hash of
\* the header stored under the number.
ResolvedHash(block) ==
    IF block.kind = "Hash" THEN block.hash
    ELSE HashOf(CHOOSE hd \in store : hd.number = block.number)

\* C14: a successful state_at(block_id) adds one view, bound to the hash
\* block_id resolves to, with an empty header cache and no lookup made; it
\* makes no remote read and leaves the store and the other views as they were.
C14_StateAtFrame ==
    [][\A b \in BlockIds :
        (StateAt(b) /\ last'.res.ok) =>
            /\ Len(views') = Len(views) + 1
            /\ last'.res.val = Len(views')
            /\ SubSeq(views', 1, Len(views)) = views
            /\ views'[Len(views')].block = ResolvedHash(b)
            /\ views'[Len(views')].cached_header = None
            /\ views'[Len(views')].lookups = 0
            /\ views'[Len(views')].calls = 0
            /\ store' = store
            /\ frame' = frame /\ pc' = pc]_vars

C14_Witness ==
    /\ last.op = "state_at"
    /\ last.block.kind = "Number"
    /\ last.res.ok
    /\ views[last.res.val].block = ResolvedHash(last.block)
    /\ views[last.res.val].known
    /\ views[last.res.val].cached_header = None
\* What a remote_read request of a storage(key) call on the view must be: the
\* view's block hash, a header stored under that hash, the key, no retry count.
WellFormedRequest(request, view, key) ==
    /\ request.block = view.block
    /\ request.header \in store
    /\ HashOf(request.header) = view.block
    /\ request.key = key
    /\ request.retry_count = None

\* C15: every remote_read request made by storage(key), whether the call is
\* still waiting or has returned, and whether the header was looked up by the
\* call or read from the cache, carries the view's block hash, the header the
\* blockchain stores under that hash, the requested key and no retry count.
C15_RequestContents ==
    /\ \A t \in Threads :
          pc[t] \in {"waiting", "replied"} =>
              WellFormedRequest(frame[t].request.val, views[frame[t].view], frame[t].key)
    /\ (last.op = "storage" /\ last.request.some) =>
              WellFormedRequest(last.request.val, views[last.view], last.key)

C15_Witness ==
    /\ last.op = "storage"
    /\ last.request.some
    /\ last.cached0
    /\ last.bdead
    /\ WellFormedRequest(last.request.val, views[last.view], last.key)
    /\ \E t \in Threads : /\ pc[t] = "waiting"
                          /\ frame[t].view = last.view
                          /\ frame[t].key # last.key
                          /\ frame[t].request.val.header = last.request.val.header
\* Threads holding the cache lock of a view, for reading or for writing.
LockHolders == {t \in Threads : pc[t] \in {"rlocked", "wlocked"}}

\* C16: concurrent storage() calls neither deadlock on the cache lock nor wait
\* for one another's remote read. A caller that is not waiting for its own
\* reply can take its next step unless it waits for the write lock, and then
\* another caller holds the lock and can release it at once: no lock holder
\* is looking a header up or waiting for a reply. With a fetcher that
\* completes every request every call returns (no caller stays inside
\* storage() for ever), and a remote outcome is returned only after the call's
\* own request was completed.
C16_StorageTerminates ==
    /\ \A t \in Threads : []<>(pc[t] = "idle")
    /\ [](\A t \in Threads :
            /\ pc[t] \notin {"idle", "waiting", "wlock"} => ENABLED StorageStep(t)
            /\ pc[t] = "waiting" => ENABLED Completes(t)
            /\ (pc[t] = "wlock" /\ ~ENABLED StorageStep(t)) =>
                  \E u \in LockHolders \ {t} : ENABLED StorageStep(u))
    /\ []((last.op = "storage" /\ last.request.some) =>
            (last.reply.some /\ last.res = last.reply.val))

C16_Witness ==
    /\ pc["t1"] = "wlock"
    /\ pc["t2"] = "rlocked"
    /\ frame["t1"].view = frame["t2"].view
    /\ ~ENABLED StorageStep("t1")
    /\ ENABLED StorageStep("t2")
C18_FailedResolutionNotCached ==
    /\ []((last.op = "storage" /\ last.res = UnknownBlock /\ InCall(last.view) = {}) =>
            (views[last.view].cached_header = None /\ views[last.view].writes = 0))
    /\ [](\A v \in ViewIds :
            (views[v].writes = 0 /\ InCall(v) = {} /\ bcAlive) =>
                views[v].lookups = views[v].calls)
    /\ [][\A t \in Threads :
            (Resolve(t) /\ bcAlive /\ Present(BlockIdHash(views[frame[t].view].block))) =>
                /\ pc'[t] = "wlock"
                /\ frame'[t].looked
                /\ frame'[t].header.some
                /\ HashOf(frame'[t].header.val) = views[frame[t].view].block]_vars

C18_Witness ==
    /\ last.op = "storage"
    /\ ~last.first
    /\ last.looked
    /\ ~views[last.view].known
    /\ views[last.view].calls = 2
    /\ views[last.view].lookups = 2
    /\ views[last.view].writes = 1
    /\ views[last.view].cached_header = last.header
\* C19: a storage(key) call entered with the header cache populated and the
\* blockchain already dropped never returns UnknownBlock and makes no lookup:
\* it makes the remote read with the cached header, unless the fetcher is gone
\* as well, and then it returns NotAvailableOnLightClient.
C19_CachedHeaderOutlivesBlockchain ==
    (last.op = "storage" /\ last.cached0 /\ last.bdead) =>
        /\ last.res # UnknownBlock
        /\ ~last.looked
        /\ last.header = views[last.view].cached_header
        /\ IF last.request.some
           THEN /\ last.request.val.header = views[last.view].cached_header.val
                /\ last.res = last.reply.val
           ELSE last.res = NotAvailableOnLightClient
        /\ fetcherExt => last.request.some

C19_Witness ==
    /\ last.op = "storage"
    /\ last.cached0
    /\ last.bdead
    /\ ~bcAlive
    /\ last.res.ok
    /\ last.request.val.header = views[last.view].cached_header.val
\* C20: with one caller, a storage() call entered with the fetcher dropped and
\* the cache empty, on a view whose header is stored, with the blockchain
\* alive, looks the header up and caches it before it returns
\* NotAvailableOnLightClient without a request; a call entered with the cache
\* populated makes no lookup, and no lookup is made while the cache is
\* populated.
C20_ResolutionPrecedesFetcherCheck ==
    /\ []((/\ last.op = "storage"
           /\ last.fdead
           /\ ~last.cached0
           /\ views[last.view].known
           /\ bcAlive) =>
            /\ last.res = NotAvailableOnLightClient
            /\ last.nreq = 0
            /\ last.looked
            /\ views[last.view].cached_header.some
            /\ views[last.view].cached_header = last.header
            /\ HashOf(last.header.val) = views[last.view].block)
    /\ []((last.op = "storage" /\ last.cached0) => ~last.looked)
    /\ [][\A t \in Threads :
            Resolve(t) => ~views[frame[t].view].cached_header.some]_vars

C20_Witness ==
    /\ last.op = "storage"
    /\ last.first
    /\ last.fdead
    /\ last.res = NotAvailableOnLightClient
    /\ last.looked
    /\ views[last.view].cached_header.some
    /\ views[last.view].lookups = 1
    /\ views[last.view].calls = 2
    /\ pc["t1"] = "fetch"
====
